---- MODULE Spec2Model ----
(***************************************************************************)
(* Model of gold-tracker (src/main.go): a loop that sleeps until the next  *)
(* scheduled slot, scrapes a price table, reads the previous snapshot from *)
(* latest.json, overwrites latest.json, appends the snapshot to the SQLite *)
(* table gold_prices, formats a report and pushes it to Telegram and Slack. *)
(*                                                                         *)
(* Text is modelled as a sequence of one-character strings.  A literal of  *)
(* the program that is only ever copied or compared as a whole is carried  *)
(* as one element, written in ASCII (Vietnamese without its diacritics).   *)
(* Time is counted in whole hours since midnight of the day the process    *)
(* started.  Integers stay far below the int64 range, so no operation of   *)
(* the model overflows.  The file system is taken to be reliable: a write  *)
(* of latest.json stores what it was given.                                *)
(***************************************************************************)
EXTENDS Integers, Sequences, FiniteSets, TLC

VARIABLES
    pc,            \* position of main's loop (main.go:235-274)
    now,           \* wall clock, in hours
    cfg,           \* Config loaded at startup (main.go:233)
    err,           \* err returned by fetchGoldPrices (main.go:254)
    prices,        \* main's local prices (main.go:254)
    lastPrices,    \* main's local lastPrices (main.go:260)
    message,       \* main's local message (main.go:265)
    latestFile,    \* content of latest.json, or AbsentFile
    history,       \* rows of table gold_prices, in id order
    telegramSent,  \* requests posted to the Telegram API
    slackSent,     \* requests posted to the Slack webhook
    dbErr,         \* what the database did in the last saveToSQLite
    insertFailed,  \* indices of the records whose INSERT failed in the last saveToSQLite
    steps,         \* history variable: the steps the current cycle has done
    lastWritten,   \* history variable: the snapshot of the last write of latest.json
    cycles,        \* history variable: number of cycles started
    input,         \* argument of the function under test (function specifications)
    output         \* its result

vars == <<pc, now, cfg, err, prices, lastPrices, message, latestFile, history,
          telegramSent, slackSent, dbErr, insertFailed, steps, lastWritten,
          cycles, input, output>>

----------------------------------------------------------------------------
(* Bounds *)

\* cycles the loop of main is followed for
MaxCycles == 3
\* rows of a document handed to the parser on its own
MaxRows == 3
\* records of a snapshot handed to formatMessage on its own
MaxSnap == 2
\* FormatVND is tried on +-m * 10^e, m <= MaxMant, e <= MaxExp
MaxMant == 120
MaxExp == 3

----------------------------------------------------------------------------
(* Text helpers *)

Absent == "absent"
Corrupt == "corrupt"

DigitChars == <<"0", "1", "2", "3", "4", "5", "6", "7", "8", "9">>

IsDigit(c) == \E i \in 1..10 : DigitChars[i] = c

DigitVal(c) == (CHOOSE i \in 1..10 : DigitChars[i] = c) - 1

\* unicode.IsSpace, on the characters the model uses
IsSpace(c) == c \in {" ", "\t", "\n"}

RECURSIVE TrimLeft(_)
TrimLeft(s) ==
    IF s /= <<>> /\ IsSpace(Head(s)) THEN TrimLeft(Tail(s)) ELSE s

RECURSIVE TrimRight(_)
TrimRight(s) ==
    IF s /= <<>> /\ IsSpace(s[Len(s)]) THEN TrimRight(SubSeq(s, 1, Len(s) - 1)) ELSE s

\* strings.TrimSpace
TrimSpace(s) == TrimRight(TrimLeft(s))

\* strings.ReplaceAll(s, old, new) for a one-character old
RECURSIVE ReplaceAll(_, _, _)
ReplaceAll(s, old, new) ==
    IF s = <<>> THEN <<>>
    ELSE (IF Head(s) = old THEN new ELSE <<Head(s)>>) \o ReplaceAll(Tail(s), old, new)

\* fmt.Sprintf("%d", n) for n >= 0
RECURSIVE Digits(_)
Digits(n) ==
    IF n < 10 THEN <<DigitChars[n + 1]>>
    ELSE Digits(n \div 10) \o <<DigitChars[(n % 10) + 1]>>

\* fmt.Sprintf("%d", n), and the text SQLite and encoding/json give an integer
IntText(n) == IF n < 0 THEN <<"-">> \o Digits(0 - n) ELSE Digits(n)

Reverse(s) == [i \in 1..Len(s) |-> s[Len(s) + 1 - i]]

----------------------------------------------------------------------------
(* convertToInt64 and strconv.ParseInt *)

\* strconv.ParseUint(s, 10, 64): the digits loop, n = n*10 + d
RECURSIVE ParseUintFrom(_, _, _)
ParseUintFrom(s, i, n) ==
    IF i > Len(s) THEN [ok |-> TRUE, val |-> n]
    ELSE IF ~IsDigit(s[i]) THEN [ok |-> FALSE, val |-> 0]
    ELSE ParseUintFrom(s, i + 1, n * 10 + DigitVal(s[i]))

ParseUint(s) ==
    IF s = <<>> THEN [ok |-> FALSE, val |-> 0] ELSE ParseUintFrom(s, 1, 0)

\* strconv.ParseInt(s, 10, 64): an optional sign, then ParseUint
ParseInt(s) ==
    IF s = <<>> THEN [ok |-> FALSE, val |-> 0]
    ELSE LET neg == Head(s) = "-"
             rest == IF Head(s) \in {"+", "-"} THEN Tail(s) ELSE s
             un == ParseUint(rest)
         IN  IF ~un.ok THEN [ok |-> FALSE, val |-> 0]
             ELSE [ok |-> TRUE, val |-> IF neg THEN 0 - un.val ELSE un.val]

\* convertToInt64 without the removal of the commas
convertToInt64KeepsCommas(valueStr) == ParseInt(valueStr)

convertToInt64(valueStr) == ParseInt(ReplaceAll(valueStr, ",", <<>>))

----------------------------------------------------------------------------
(* fetchGoldPrices: the rows of the document, parsed *)

\* A row of the pricing table: th is the number of header cells under the
\* row, td the texts of its data cells.
\* cells.Eq(i).Text(), i counted from 0: the empty text when the cell is missing
CellText(row, i) == IF i + 1 <= Len(row.td) THEN row.td[i + 1] ELSE <<>>

GoldPrice(type, buy, sell, converted, updatedAt) ==
    [Type |-> type, Buy |-> buy, Sell |-> sell, Converted |-> converted,
     UpdatedAt |-> updatedAt]

\* the callback of Each, on one row: the prices after the row
ParseRow(acc, row, at) ==
    IF row.th > 0 THEN acc
    ELSE IF Len(row.td) >= 3
    THEN LET buy == convertToInt64(TrimSpace(CellText(row, 1)))
             sell == convertToInt64(TrimSpace(CellText(row, 2)))
         IN  IF ~buy.ok THEN acc
             ELSE IF ~sell.ok THEN acc
             ELSE Append(acc, GoldPrice(TrimSpace(CellText(row, 0)), buy.val, sell.val,
                                        TrimSpace(CellText(row, 3)), at))
    ELSE acc

RECURSIVE EachRow(_, _, _, _)
EachRow(rows, i, acc, at) ==
    IF i > Len(rows) THEN acc
    ELSE EachRow(rows, i + 1, ParseRow(acc, rows[i], at), at)

ParseRows(rows, at) == EachRow(rows, 1, <<>>, at)

----------------------------------------------------------------------------
(* FormatVND *)

\* the currency glyph U+20AB that ends a formatted amount
DongSign == "d"

\* GroupFromRight without the test that the digit is not the first one
RECURSIVE GroupFromRightLeadingSep(_, _, _, _)
GroupFromRightLeadingSep(s, i, count, result) ==
    IF i < 1 THEN result
    ELSE LET r1 == Append(result, s[i])
             c == count + 1
             r2 == IF c % 3 = 0 THEN Append(r1, ".") ELSE r1
         IN  GroupFromRightLeadingSep(s, i - 1, c, r2)

\* the loop that writes the digits from the last to the first, a '.' after
\* every third one but not after the first digit of the number
RECURSIVE GroupFromRight(_, _, _, _)
GroupFromRight(s, i, count, result) ==
    IF i < 1 THEN result
    ELSE LET r1 == Append(result, s[i])
             c == count + 1
             r2 == IF c % 3 = 0 /\ i /= 1 THEN Append(r1, ".") ELSE r1
         IN  GroupFromRight(s, i - 1, c, r2)

FormatVND(n) ==
    LET m == n * 1000
        a == IF m < 0 THEN m * (0 - 1) ELSE m
        s == Digits(a)
    IN  Reverse(GroupFromRight(s, Len(s), 0, <<>>)) \o <<" ", DongSign>>

----------------------------------------------------------------------------
(* formatMessage *)

\* the emoji U+1F4B0 that ends the header line
MoneyBag == "$"

TrackedName == <<"Vang nhan khau 9999">>

\* the zero value of GoldPrice
ZeroGoldPrice == GoldPrice(<<>>, 0, 0, <<>>, 0)

\* the loops of formatMessage over a snapshot: the last record of the tracked
\* name, the zero value when there is none
RECURSIVE FindRing(_, _, _)
FindRing(ps, i, cur) ==
    IF i > Len(ps) THEN cur
    ELSE FindRing(ps, i + 1, IF ps[i].Type = TrackedName THEN ps[i] ELSE cur)

\* time.Now().Format(layout)
FormatTime(layout, at) == <<layout>> \o Digits(at)

\* DeltaLine with the first case taken for a difference of zero too
DeltaLineZeroIsIncrease(side, diff) ==
    IF diff >= 0
    THEN <<"> Hom nay gia ", side, " tang ">> \o FormatVND(diff) \o <<"/chi so voi truoc do">>
    ELSE <<"> Hom nay gia ", side, " giam ">> \o FormatVND(diff) \o <<"/chi so voi truoc do">>

\* one switch of formatMessage, on a difference: the commentary line
DeltaLine(side, diff) ==
    IF diff > 0
    THEN <<"> Hom nay gia ", side, " tang ">> \o FormatVND(diff) \o <<"/chi so voi truoc do">>
    ELSE IF diff < 0
    THEN <<"> Hom nay gia ", side, " giam ">> \o FormatVND(diff) \o <<"/chi so voi truoc do">>
    ELSE <<"> Hom nay gia ", side, " khong doi so voi truoc do">>

\* the message, as its four lines
formatMessage(c, ps, lastPs, at) ==
    LET ringGold == FindRing(ps, 1, ZeroGoldPrice)
        lastRingGold == FindRing(lastPs, 1, ZeroGoldPrice)
        currentBuy == ringGold.Buy
        currentSell == ringGold.Sell
        lastBuy == lastRingGold.Buy
        lastSell == lastRingGold.Sell
    IN  << <<"Gia vang hom nay - ">> \o FormatTime(c.FormatTime, at) \o <<" ", MoneyBag>>,
           <<"* ">> \o ringGold.Type \o <<": Mua ">> \o FormatVND(ringGold.Buy)
               \o <<"/chi - Ban ">> \o FormatVND(ringGold.Sell) \o <<"/chi">>,
           DeltaLine("mua", currentBuy - lastBuy),
           DeltaLine("ban", currentSell - lastSell) >>

----------------------------------------------------------------------------
(* latest.json: json.MarshalIndent and json.Unmarshal of []GoldPrice *)

\* the escapes encoding/json writes inside a string
EscapeChar(c) ==
    IF c = "\"" THEN <<"\\", "\"">>
    ELSE IF c = "\\" THEN <<"\\", "\\">>
    ELSE IF c = "&" THEN <<"\\", "u", "0", "0", "2", "6">>
    ELSE <<c>>

RECURSIVE EscapeText(_)
EscapeText(s) ==
    IF s = <<>> THEN <<>> ELSE EscapeChar(Head(s)) \o EscapeText(Tail(s))

JsonString(s) == <<"\"">> \o EscapeText(s) \o <<"\"">>

\* the inside of a JSON string, unescaped
RECURSIVE UnescapeText(_)
UnescapeText(s) ==
    IF s = <<>> THEN <<>>
    ELSE IF Head(s) = "\\" /\ Len(s) >= 2
    THEN IF s[2] = "u" /\ Len(s) >= 6
         THEN (IF SubSeq(s, 3, 6) = <<"0", "0", "2", "6">> THEN <<"&">> ELSE <<"?">>)
              \o UnescapeText(SubSeq(s, 7, Len(s)))
         ELSE <<s[2]>> \o UnescapeText(SubSeq(s, 3, Len(s)))
    ELSE <<Head(s)>> \o UnescapeText(Tail(s))

JsonUnstring(t) == UnescapeText(SubSeq(t, 2, Len(t) - 1))

\* time.Time as JSON: the day and the hour of the day, RFC 3339 style
TimeText(at) ==
    Digits(at \div 24) \o <<"T">> \o Digits((at % 24) \div 10) \o Digits((at % 24) % 10)

TimeOfText(t) ==
    LET n == Len(t)
    IN  ParseUint(SubSeq(t, 1, n - 3)).val * 24 + ParseUint(SubSeq(t, n - 1, n)).val

\* JsonObject with the tags of Buy and Sell exchanged
JsonObjectTagsSwapped(p) ==
    [type |-> JsonString(p.Type), buy |-> IntText(p.Sell), sell |-> IntText(p.Buy),
     converted |-> JsonString(p.Converted), updated_at |-> TimeText(p.UpdatedAt)]

JsonObject(p) ==
    [type |-> JsonString(p.Type), buy |-> IntText(p.Buy), sell |-> IntText(p.Sell),
     converted |-> JsonString(p.Converted), updated_at |-> TimeText(p.UpdatedAt)]

\* json.MarshalIndent(prices, "", "  "): a nil slice is written as null
MarshalIndent(ps) ==
    IF ps = <<>> THEN [kind |-> "null", items |-> <<>>]
    ELSE [kind |-> "array", items |-> [i \in 1..Len(ps) |-> JsonObject(ps[i])]]

ObjectToPrice(o) ==
    GoldPrice(JsonUnstring(o.type), ParseInt(o.buy).val, ParseInt(o.sell).val,
              JsonUnstring(o.converted), TimeOfText(o.updated_at))

\* json.Unmarshal(data, &prices) with its error dropped: null and a text that
\* is no JSON leave prices nil
Unmarshal(data) ==
    IF data.kind = "array"
    THEN [i \in 1..Len(data.items) |-> ObjectToPrice(data.items[i])]
    ELSE <<>>

\* loadLastPrices, when latest.json can be read
loadLastPrices(file) == Unmarshal(file)

AbsentFile == [kind |-> Absent, items |-> <<>>]
CorruptFile == [kind |-> Corrupt, items |-> <<>>]

----------------------------------------------------------------------------
(* saveToSQLite *)

\* a row of gold_prices: buy and sell are TEXT columns
HistoryRow(id, p) ==
    [id |-> id, type |-> p.Type, buy |-> IntText(p.Buy), sell |-> IntText(p.Sell),
     converted |-> p.Converted, updated_at |-> p.UpdatedAt]

\* InsertLoop that returns at the first INSERT that fails
RECURSIVE InsertLoopStopsAtError(_, _, _, _)
InsertLoopStopsAtError(table, ps, i, failed) ==
    IF i > Len(ps) THEN table
    ELSE IF i \in failed THEN table
    ELSE InsertLoopStopsAtError(Append(table, HistoryRow(Len(table) + 1, ps[i])),
                                ps, i + 1, failed)

\* the INSERT loop: failed holds the indices whose INSERT returns an error
RECURSIVE InsertLoop(_, _, _, _)
InsertLoop(table, ps, i, failed) ==
    IF i > Len(ps) THEN table
    ELSE InsertLoop(IF i \in failed THEN table
                    ELSE Append(table, HistoryRow(Len(table) + 1, ps[i])),
                    ps, i + 1, failed)

\* db is what sql.Open and CREATE TABLE did: "openErr", "createErr" or "ok"
saveToSQLite(table, ps, db, failed) ==
    IF db = "openErr" THEN table
    ELSE IF db = "createErr" THEN table
    ELSE InsertLoop(table, ps, 1, failed)

----------------------------------------------------------------------------
(* sendTelegram, sendSlack: the requests a call posts *)

sendTelegram(c, msg) ==
    IF c.TelegramToken = "" \/ c.TelegramChatID = "" THEN <<>>
    ELSE << [token |-> c.TelegramToken, chat_id |-> c.TelegramChatID, text |-> msg,
             parse_mode |-> "Markdown"] >>

sendSlack(c, msg) ==
    IF c.SlackWebhook = "" THEN <<>>
    ELSE << [url |-> c.SlackWebhook,
             text |-> [i \in 1..Len(msg) |-> ReplaceAll(msg[i], "\"", <<"\\", "\"">>)]] >>

----------------------------------------------------------------------------
(* The schedule of main *)

HoursPerDay == 24
MorningHour == 3
AfternoonHour == 8

\* nextRun, computed from now at the top of the loop
NextRun(t) ==
    LET morning == (t \div HoursPerDay) * HoursPerDay + MorningHour
        afternoon == (t \div HoursPerDay) * HoursPerDay + AfternoonHour
    IN  IF t < morning THEN morning
        ELSE IF t < afternoon THEN afternoon
        ELSE morning + HoursPerDay

----------------------------------------------------------------------------
(* The environment: configurations, documents, files *)

TableRow(th, td) == [th |-> th, td |-> td]

OtherName == <<"Vang mieng SJC">>

HeaderRow == TableRow(3, <<>>)
RowT100 == TableRow(0, <<TrackedName, <<"1", "0", "0">>, <<"1", "0", "2">>>>)
RowT105 == TableRow(0, <<<<" ">> \o TrackedName \o <<"\n">>, <<" ", "1", "0", "5", " ">>,
                         <<"1", ",", "0", "2">>, <<"1", " ", "&", " ", "\"", "x", "\"">>>>)
RowT99 == TableRow(0, <<TrackedName, <<"+", "9", "9">>, <<"1", "0", "7">>, <<>>>>)
RowNeg == TableRow(0, <<OtherName, <<"-", "5">>, <<"7">>>>)
RowBadBuy == TableRow(0, <<OtherName, <<"x">>, <<"1">>>>)
RowBadSell == TableRow(0, <<OtherName, <<"1">>, <<"1", " ", "2">>>>)
RowShort == TableRow(0, <<OtherName, <<"1">>>>)

\* the documents a fetch of the price page returns, as the rows the selector finds
MainDocs ==
    { <<>>,
      <<HeaderRow, RowBadBuy, RowShort>>,
      <<HeaderRow, RowT100>>,
      <<HeaderRow, RowT105, RowNeg>>,
      <<RowBadSell, RowT99>> }

\* the ways fetchGoldPrices fails: http.Get, the status, the document
FetchErrors == {"network", "status", "document"}

Config(token, chat, webhook, layout) ==
    [TelegramToken |-> token, TelegramChatID |-> chat, SlackWebhook |-> webhook,
     FormatTime |-> layout]

Configs ==
    { Config("token", "chat", "https://hooks", "15:04 02/01/2006"),
      Config("token", "", "", "15:04"),
      Config("", "", "https://hooks", "15:04") }

\* latest.json when the process starts: missing, no JSON, or left by an earlier run
StartFiles ==
    { AbsentFile, CorruptFile, MarshalIndent(<<>>),
      MarshalIndent(<<GoldPrice(TrackedName, 100, 102, <<>>, 0)>>) }

\* the hours of the day the process is started at
StartHours == {1, 9}

----------------------------------------------------------------------------
(* main *)

\* NextStep with latest.json written before it is read
NextStepWriteFirst(p, e) ==
    CASE p = "fetch" -> (IF e /= "nil" THEN "sleep" ELSE "write")
      [] p = "write" -> "load"
      [] p = "load" -> "save"
      [] p = "save" -> "format"
      [] p = "format" -> "telegram"
      [] p = "telegram" -> "slack"
      [] p = "slack" -> "sleep"

\* NextStep without the continue on a failed fetch
NextStepIgnoresErr(p, e) ==
    CASE p = "fetch" -> "load"
      [] p = "load" -> "write"
      [] p = "write" -> "save"
      [] p = "save" -> "format"
      [] p = "format" -> "telegram"
      [] p = "telegram" -> "slack"
      [] p = "slack" -> "sleep"

\* the statement main runs after statement p, e being the err of the fetch:
\* a failed fetch continues with the loop, every other statement falls
\* through to the one below it
NextStep(p, e) ==
    CASE p = "fetch" -> (IF e /= "nil" THEN "sleep" ELSE "load")
      [] p = "load" -> "write"
      [] p = "write" -> "save"
      [] p = "save" -> "format"
      [] p = "format" -> "telegram"
      [] p = "telegram" -> "slack"
      [] p = "slack" -> "sleep"

Init ==
    /\ pc = "sleep"
    /\ now \in StartHours
    /\ cfg \in Configs
    /\ err = "nil"
    /\ prices = <<>>
    /\ lastPrices = <<>>
    /\ message = <<>>
    /\ latestFile \in StartFiles
    /\ history = <<>>
    /\ telegramSent = <<>>
    /\ slackSent = <<>>
    /\ dbErr = "ok"
    /\ insertFailed = {}
    /\ steps = <<>>
    /\ lastWritten = <<>>
    /\ cycles = 0
    /\ input = <<>>
    /\ output = <<>>

\* the top of the loop: compute nextRun and sleep until then
Sleep ==
    /\ pc = "sleep"
    /\ cycles < MaxCycles
    /\ now' = NextRun(now)
    /\ pc' = "fetch"
    /\ cycles' = cycles + 1
    /\ steps' = <<>>
    /\ err' = "nil"
    /\ prices' = <<>>
    /\ lastPrices' = <<>>
    /\ message' = <<>>
    /\ UNCHANGED <<cfg, latestFile, history, telegramSent, slackSent, dbErr,
                   insertFailed, lastWritten, input, output>>

\* fetchGoldPrices returns an error: main logs it and continues with the loop
FetchFail ==
    /\ pc = "fetch"
    /\ \E e \in FetchErrors :
          /\ err' = e
          /\ pc' = NextStep("fetch", e)
    /\ prices' = <<>>
    /\ UNCHANGED <<now, cfg, lastPrices, message, latestFile, history, telegramSent,
                   slackSent, dbErr, insertFailed, steps, lastWritten, cycles,
                   input, output>>

\* fetchGoldPrices gets a document and returns the rows it parsed
FetchOK ==
    /\ pc = "fetch"
    /\ \E doc \in MainDocs : prices' = ParseRows(doc, now)
    /\ err' = "nil"
    /\ pc' = NextStep("fetch", "nil")
    /\ UNCHANGED <<now, cfg, lastPrices, message, latestFile, history, telegramSent,
                   slackSent, dbErr, insertFailed, steps, lastWritten, cycles,
                   input, output>>

\* loadLastPrices cannot read latest.json: log.Fatalf ends the process
LoadLastFatal ==
    /\ pc = "load"
    /\ latestFile = AbsentFile
    /\ pc' = "exited"
    /\ UNCHANGED <<now, cfg, err, prices, lastPrices, message, latestFile, history,
                   telegramSent, slackSent, dbErr, insertFailed, steps, lastWritten,
                   cycles, input, output>>

LoadLast ==
    /\ pc = "load"
    /\ latestFile /= AbsentFile
    /\ lastPrices' = loadLastPrices(latestFile)
    /\ steps' = Append(steps, "read")
    /\ pc' = NextStep("load", err)
    /\ UNCHANGED <<now, cfg, err, prices, message, latestFile, history, telegramSent,
                   slackSent, dbErr, insertFailed, lastWritten, cycles, input, output>>

\* json.MarshalIndent and os.WriteFile of latest.json
WriteLatest ==
    /\ pc = "write"
    /\ latestFile' = MarshalIndent(prices)
    /\ lastWritten' = <<prices>>
    /\ steps' = Append(steps, "write")
    /\ pc' = NextStep("write", err)
    /\ UNCHANGED <<now, cfg, err, prices, lastPrices, message, history, telegramSent,
                   slackSent, dbErr, insertFailed, cycles, input, output>>

\* saveToSQLite, its result dropped by main
Save ==
    /\ pc = "save"
    /\ \E db \in {"ok", "openErr", "createErr"} :
       \E failed \in SUBSET (1..Len(prices)) :
          /\ db /= "ok" => failed = {}
          /\ history' = saveToSQLite(history, prices, db, failed)
          /\ dbErr' = db
          /\ insertFailed' = failed
    /\ steps' = Append(steps, "append")
    /\ pc' = NextStep("save", err)
    /\ UNCHANGED <<now, cfg, err, prices, lastPrices, message, latestFile,
                   telegramSent, slackSent, lastWritten, cycles, input, output>>

\* formatMessage: its error is always nil
Format ==
    /\ pc = "format"
    /\ message' = formatMessage(cfg, prices, lastPrices, now)
    /\ steps' = Append(steps, "format")
    /\ pc' = NextStep("format", err)
    /\ UNCHANGED <<now, cfg, err, prices, lastPrices, latestFile, history, telegramSent,
                   slackSent, dbErr, insertFailed, lastWritten, cycles, input, output>>

Telegram ==
    /\ pc = "telegram"
    /\ telegramSent' = telegramSent \o sendTelegram(cfg, message)
    /\ steps' = Append(steps, "telegram")
    /\ pc' = NextStep("telegram", err)
    /\ UNCHANGED <<now, cfg, err, prices, lastPrices, message, latestFile, history,
                   slackSent, dbErr, insertFailed, lastWritten, cycles, input, output>>

\* sendSlack, then the log line that ends the cycle
Slack ==
    /\ pc = "slack"
    /\ slackSent' = slackSent \o sendSlack(cfg, message)
    /\ steps' = Append(steps, "slack")
    /\ pc' = NextStep("slack", err)
    /\ UNCHANGED <<now, cfg, err, prices, lastPrices, message, latestFile, history,
                   telegramSent, dbErr, insertFailed, lastWritten, cycles, input, output>>

Next ==
    \/ Sleep
    \/ FetchFail
    \/ FetchOK
    \/ LoadLastFatal
    \/ LoadLast
    \/ WriteLatest
    \/ Save
    \/ Format
    \/ Telegram
    \/ Slack

Spec == Init /\ [][Next]_vars

----------------------------------------------------------------------------
(* The functions on their own: a call of one function on an argument drawn *)
(* from a bounded set, the rest of the program at rest.                    *)

AtRest ==
    /\ now = 0
    /\ cfg = Config("token", "chat", "https://hooks", "15:04")
    /\ err = "nil"
    /\ prices = <<>>
    /\ lastPrices = <<>>
    /\ message = <<>>
    /\ latestFile = AbsentFile
    /\ history = <<>>
    /\ telegramSent = <<>>
    /\ slackSent = <<>>
    /\ dbErr = "ok"
    /\ insertFailed = {}
    /\ steps = <<>>
    /\ lastWritten = <<>>
    /\ cycles = 0

SeqsUpTo(S, n) == UNION {[1..k -> S] : k \in 0..n}

RECURSIVE Pow10(_)
Pow10(e) == IF e = 0 THEN 1 ELSE 10 * Pow10(e - 1)

\* FormatVND
FormatInputs ==
    {sgn * m * Pow10(e) : sgn \in {0 - 1, 1}, m \in 0..MaxMant, e \in 0..MaxExp}

InitFormat ==
    /\ pc = "FormatVND"
    /\ input \in FormatInputs
    /\ output = <<>>
    /\ AtRest

CallFormatVND ==
    /\ pc = "FormatVND"
    /\ output' = FormatVND(input)
    /\ pc' = "formatted"
    /\ UNCHANGED <<now, cfg, err, prices, lastPrices, message, latestFile, history,
                   telegramSent, slackSent, dbErr, insertFailed, steps, lastWritten,
                   cycles, input>>

SpecFormat == InitFormat /\ [][CallFormatVND]_vars

\* the parser of fetchGoldPrices
RowHeaderWithCells ==
    TableRow(1, <<TrackedName, <<"1", "0", "0">>, <<"1", "0", "2">>>>)
RowCommaOnly == TableRow(0, <<OtherName, <<",">>, <<"1">>>>)
RowSignOnly == TableRow(0, <<OtherName, <<"1", "2">>, <<"-">>, <<"x">>>>)
RowEmptyCells == TableRow(0, <<<<>>, <<>>, <<>>>>)
RowSpaced == TableRow(0, <<<<"\t">> \o OtherName, <<"\n", ",", "7", ",">>, <<"0", "0", "8", " ">>,
                           <<" ", "a", " ", "b", " ">>>>)

ParseRowSet ==
    { HeaderRow, RowHeaderWithCells, RowT100, RowT105, RowT99, RowNeg, RowBadBuy,
      RowBadSell, RowShort, RowCommaOnly, RowSignOnly, RowEmptyCells, RowSpaced }

InitParse ==
    /\ pc = "fetchGoldPrices"
    /\ input \in SeqsUpTo(ParseRowSet, MaxRows)
    /\ output = <<>>
    /\ AtRest

CallParseRows ==
    /\ pc = "fetchGoldPrices"
    /\ output' = ParseRows(input, now)
    /\ pc' = "parsed"
    /\ UNCHANGED <<now, cfg, err, prices, lastPrices, message, latestFile, history,
                   telegramSent, slackSent, dbErr, insertFailed, steps, lastWritten,
                   cycles, input>>

SpecParse == InitParse /\ [][CallParseRows]_vars

\* formatMessage
NearMissName == <<"Vang nhan khau 999">>

MessageRecords ==
    { GoldPrice(TrackedName, 100, 102, <<>>, 0),
      GoldPrice(TrackedName, 105, 99, <<>>, 0),
      GoldPrice(TrackedName, 100, 99, <<>>, 0),
      GoldPrice(TrackedName, 0 - 5, 102, <<>>, 0),
      GoldPrice(NearMissName, 120, 90, <<>>, 0) }

InitMessage ==
    /\ pc = "formatMessage"
    /\ input \in [prices : SeqsUpTo(MessageRecords, MaxSnap),
                  lastPrices : SeqsUpTo(MessageRecords, MaxSnap)]
    /\ output = <<>>
    /\ AtRest

CallFormatMessage ==
    /\ pc = "formatMessage"
    /\ output' = formatMessage(cfg, input.prices, input.lastPrices, now)
    /\ pc' = "messaged"
    /\ UNCHANGED <<now, cfg, err, prices, lastPrices, message, latestFile, history,
                   telegramSent, slackSent, dbErr, insertFailed, steps, lastWritten,
                   cycles, input>>

SpecMessage == InitMessage /\ [][CallFormatMessage]_vars

----------------------------------------------------------------------------
(* Properties of the functions *)

IsPrefix(s, t) == Len(s) <= Len(t) /\ SubSeq(t, 1, Len(s)) = s

Abs(n) == IF n < 0 THEN 0 - n ELSE n

\* the number a sequence of decimal digits denotes
RECURSIVE DecimalValue(_)
DecimalValue(ds) ==
    IF ds = <<>> THEN 0
    ELSE DecimalValue(SubSeq(ds, 1, Len(ds) - 1)) * 10 + DigitVal(ds[Len(ds)])

\* ds is the decimal numeral of a natural number: digits, no leading zero
IsNumeral(ds) ==
    /\ Len(ds) >= 1
    /\ \A i \in 1..Len(ds) : IsDigit(ds[i])
    /\ Len(ds) > 1 => ds[1] /= "0"

\* out is n*1000 without its sign, grouped by three from the right, then " d"
GroupedAmount(out, n) ==
    LET B == Len(out) - 2
        body == SubSeq(out, 1, B)
        digits == SelectSeq(body, LAMBDA c : c /= ".")
    IN  /\ B >= 1
        /\ SubSeq(out, B + 1, B + 2) = <<" ", DongSign>>
        /\ \A k \in 1..B : (body[B + 1 - k] = ".") <=> (k % 4 = 0)
        /\ body[1] /= "."
        /\ \A k \in 1..B : body[k] /= "-"
        /\ IsNumeral(digits)
        /\ DecimalValue(digits) = Abs(n * 1000)

\* C7: for every stored integer n of the bounded range, FormatVND(n) is the
\* decimal digits of |n * 1000| with a '.' between every two groups of three
\* digits counted from the last digit, no leading separator, no minus sign,
\* then " d" (the currency glyph); 5000 gives 5.000.000 d, and n and -n
\* give the same text.
C7_FormatVNDGroupsByThree ==
    pc = "formatted" =>
        /\ GroupedAmount(output, input)
        /\ output = FormatVND(0 - input)
        /\ input = 5000 =>
              output = <<"5", ".", "0", "0", "0", ".", "0", "0", "0", " ", DongSign>>

C7_Witness == pc = "formatted" /\ input = 0 - 5000 /\ Len(output) = 11

\* the text without the white space around it
Trimmed(s) ==
    CHOOSE t \in {SubSeq(s, i, j) : i \in 1..(Len(s) + 1), j \in 0..Len(s)} :
        \E i \in 1..(Len(s) + 1), j \in 0..Len(s) :
            /\ t = SubSeq(s, i, j)
            /\ \A k \in 1..(i - 1) : IsSpace(s[k])
            /\ \A k \in (j + 1)..Len(s) : IsSpace(s[k])
            /\ t /= <<>> => ~IsSpace(t[1]) /\ ~IsSpace(t[Len(t)])
            /\ t = <<>> => \A k \in 1..Len(s) : IsSpace(s[k])

\* a price cell, trimmed and then without its commas
Cleaned(cell) == SelectSeq(Trimmed(cell), LAMBDA c : c /= ",")

Unsigned(t) == IF t /= <<>> /\ t[1] \in {"+", "-"} THEN Tail(t) ELSE t

\* t is an integer in base 10: an optional sign, then one digit or more
IsIntegerText(t) ==
    /\ Unsigned(t) /= <<>>
    /\ \A i \in 1..Len(Unsigned(t)) : IsDigit(Unsigned(t)[i])

IntegerValue(t) ==
    IF t[1] = "-" THEN 0 - DecimalValue(Unsigned(t)) ELSE DecimalValue(Unsigned(t))

\* the parser keeps the row
KeptRow(row) ==
    /\ row.th = 0
    /\ Len(row.td) >= 3
    /\ IsIntegerText(Cleaned(row.td[2]))
    /\ IsIntegerText(Cleaned(row.td[3]))

\* the i-th of the kept rows of a document, in document order
NthKept(rows, n) ==
    CHOOSE i \in 1..Len(rows) :
        /\ KeptRow(rows[i])
        /\ Cardinality({k \in 1..i : KeptRow(rows[k])}) = n

\* C8: the parsed snapshot is the subsequence, in document order, of the rows
\* with no header cell, at least 3 data cells and buy and sell cells that are
\* integers once trimmed and freed of commas; a kept row gives its trimmed
\* name, the values of the cleaned cells and its trimmed fourth cell, empty
\* when the row has none; a rejected row does not stop the rows after it.
C8_ParsedIsKeptRowsInOrder ==
    pc = "parsed" =>
        /\ Len(output) = Cardinality({k \in 1..Len(input) : KeptRow(input[k])})
        /\ \A n \in 1..Len(output) :
              LET row == input[NthKept(input, n)]
              IN  /\ output[n].Type = Trimmed(row.td[1])
                  /\ output[n].Buy = IntegerValue(Cleaned(row.td[2]))
                  /\ output[n].Sell = IntegerValue(Cleaned(row.td[3]))
                  /\ output[n].Converted =
                         (IF Len(row.td) >= 4 THEN Trimmed(row.td[4]) ELSE <<>>)

\* a rejected row between two kept ones, the second with commas and white space
C8_Witness ==
    /\ pc = "parsed"
    /\ input = <<RowT100, RowBadBuy, RowSpaced>>
    /\ Len(output) = 2
    /\ output[2].Buy = 7
    /\ output[2].Sell = 8
    /\ output[1].Converted = <<>>

\* the buy and the sell a snapshot has for the tracked instrument: those of
\* its last record of exactly that name, 0 when it has none
TrackedSide(snap) ==
    LET at == {i \in 1..Len(snap) : snap[i].Type = TrackedName}
    IN  IF at = {} THEN [Buy |-> 0, Sell |-> 0]
        ELSE LET last == CHOOSE i \in at : \A k \in at : k <= i
             IN  [Buy |-> snap[last].Buy, Sell |-> snap[last].Sell]

\* the commentary on one side: the wording follows the sign of the difference
Commentary(side, d) ==
    IF d > 0
    THEN <<"> Hom nay gia ", side, " tang ">> \o FormatVND(d) \o <<"/chi so voi truoc do">>
    ELSE IF d < 0
    THEN <<"> Hom nay gia ", side, " giam ">> \o FormatVND(Abs(d)) \o <<"/chi so voi truoc do">>
    ELSE <<"> Hom nay gia ", side, " khong doi so voi truoc do">>

\* C6: the buy line and the sell line of the report are each chosen by the sign
\* of current - previous for the tracked instrument, a snapshot without a
\* record of exactly that name counting as 0: increased with the formatted
\* difference, decreased with the formatted magnitude, unchanged with no amount.
C6_DeltaLinesFollowSign ==
    pc = "messaged" =>
        LET cur == TrackedSide(input.prices)
            prev == TrackedSide(input.lastPrices)
        IN  /\ Len(output) = 4
            /\ output[3] = Commentary("mua", cur.Buy - prev.Buy)
            /\ output[4] = Commentary("ban", cur.Sell - prev.Sell)
            /\ \A l \in {3, 4} : \A k \in 1..Len(output[l]) : output[l][k] /= "-"
            /\ cur.Buy = prev.Buy => Len(output[3]) = 3
            /\ cur.Sell = prev.Sell => Len(output[4]) = 3

\* buy fell and sell rose, against a previous snapshot that has the tracked
\* instrument after a record of another name
C6_Witness ==
    /\ pc = "messaged"
    /\ input.prices = <<GoldPrice(TrackedName, 100, 102, <<>>, 0)>>
    /\ input.lastPrices = <<GoldPrice(NearMissName, 120, 90, <<>>, 0),
                            GoldPrice(TrackedName, 105, 99, <<>>, 0)>>
    /\ output[3][3] = " giam "
    /\ output[4][3] = " tang "

----------------------------------------------------------------------------
(* Properties of main *)

\* the steps of a cycle that got past the fetch, in the order of main
CycleOrder == <<"read", "write", "append", "format", "telegram", "slack">>

\* C1: when latest.json is absent, reading the previous snapshot gives the
\* empty snapshot and the cycle goes on to write the new latest snapshot; the
\* process does not end.
C1_MissingLatestReadsAsEmpty ==
    [][(pc = "load" /\ latestFile = AbsentFile) =>
          (pc' = "write" /\ lastPrices' = <<>>)]_vars

\* C2: a cycle whose fetch succeeded but parsed no record is skipped: it does
\* not overwrite latest.json and sends nothing.
C2_EmptyParseSkipsCycle ==
    (err = "nil" /\ prices = <<>>) =>
        \A i \in 1..Len(steps) : steps[i] \notin {"write", "telegram", "slack"}

\* C3: the steps of a cycle that got past the fetch are done in the order
\* read previous latest, write new latest, append history, format, Telegram,
\* Slack; what was read is the file as it was before this cycle wrote it; and
\* a cycle starts only when the one before is over (all its steps done, or
\* none after a failed fetch).
C3_StepsInOrder ==
    /\ IsPrefix(steps, CycleOrder)
    /\ steps /= <<>> => err = "nil"
    /\ pc = "write" => (steps = <<"read">> /\ lastPrices = loadLastPrices(latestFile))
    /\ pc = "save" => (steps = <<"read", "write">> /\ latestFile = MarshalIndent(prices))
    /\ pc = "fetch" => steps = <<>>
    /\ pc = "sleep" => steps \in {<<>>, CycleOrder}

\* the second cycle is over, the first one having written another snapshot
C3_Witness ==
    /\ pc = "sleep"
    /\ cycles = 2
    /\ steps = CycleOrder
    /\ lastPrices /= <<>>
    /\ lastPrices /= prices

\* C4: a failed fetch ends the cycle with latest.json, the history table and
\* both channels as they were, and main is back at the top of its loop, where
\* it sleeps until a slot that is later than now.
C4_FailedFetchLeavesStateUnchanged ==
    [][(pc = "fetch" /\ err' /= "nil") =>
          /\ pc' = "sleep"
          /\ NextRun(now') > now'
          /\ UNCHANGED <<latestFile, history, telegramSent, slackSent>>]_vars

\* a fetch failed in the second cycle, after a first cycle that stored and sent
C4_Witness ==
    /\ pc = "sleep"
    /\ err \in FetchErrors
    /\ history /= <<>>
    /\ telegramSent /= <<>>
    /\ steps = <<>>

\* C5: what a cycle reads as the previous snapshot is equal, record by record
\* and field by field, to the snapshot the last write of latest.json wrote, the
\* empty one included.
C5_ReadBackEqualsLastWritten ==
    (pc = "write" /\ lastWritten /= <<>>) => lastPrices = lastWritten[1]

\* a snapshot of two records, one with a note that JSON has to escape, read back
C5_Witness ==
    /\ pc = "write"
    /\ lastWritten /= <<>>
    /\ Len(lastPrices) = 2
    /\ \E i \in 1..Len(lastPrices[1].Converted) : lastPrices[1].Converted[i] = "\""
    /\ lastPrices[2].Buy < 0

\* C9: every record of the parser, of latest.json and of the history table has
\* a buy and a sell that are not negative.
C9_PricesNeverNegative ==
    /\ \A i \in 1..Len(prices) : prices[i].Buy >= 0 /\ prices[i].Sell >= 0
    /\ \A i \in 1..Len(latestFile.items) :
          latestFile.items[i].buy[1] /= "-" /\ latestFile.items[i].sell[1] /= "-"
    /\ \A i \in 1..Len(history) : history[i].buy[1] /= "-" /\ history[i].sell[1] /= "-"

\* the n-th of the records whose INSERT did not fail, in snapshot order
NthInserted(len, failed, n) ==
    CHOOSE i \in (1..len) \ failed :
        Cardinality({k \in (1..i) \ failed : TRUE}) = n

\* C10: no step changes or removes a row of the history table; a saveToSQLite
\* that reached its INSERT loop adds the records whose own INSERT did not fail,
\* all of them and in snapshot order, whatever INSERT failed before them; and
\* main goes on to format whatever saveToSQLite met.
C10_HistoryAppendOnlyAndTolerant ==
    [][/\ IsPrefix(history, history')
       /\ pc = "save" =>
             /\ pc' = "format"
             /\ dbErr' = "ok" =>
                   LET ok == (1..Len(prices)) \ insertFailed'
                       base == Len(history)
                   IN  /\ Len(history') = base + Cardinality(ok)
                       /\ \A n \in 1..Cardinality(ok) :
                             LET p == prices[NthInserted(Len(prices), insertFailed', n)]
                                 r == history'[base + n]
                             IN  /\ r.id = base + n
                                 /\ r.type = p.Type
                                 /\ r.buy = IntText(p.Buy)
                                 /\ r.sell = IntText(p.Sell)
                                 /\ r.converted = p.Converted
                                 /\ r.updated_at = p.UpdatedAt]_vars

\* the first INSERT of two failed and the second record is in the table, after
\* the rows of an earlier cycle; the report was then sent
C10_Witness ==
    /\ pc = "slack"
    /\ dbErr = "ok"
    /\ insertFailed = {1}
    /\ Len(prices) = 2
    /\ Len(history) >= 2
    /\ history[Len(history)].type = prices[2].Type
    /\ history[Len(history)].updated_at > history[1].updated_at
    /\ telegramSent /= <<>>

====
